---- MODULE Spec2Model ----
(***************************************************************************)
(* Model of upsetai.py: the rule-based upset detector.                     *)
(*                                                                         *)
(* Text is a sequence of characters (one-character strings; characters     *)
(* outside ASCII carry their code point as a name, "U2019" for the right   *)
(* single quotation mark).  Python floats are IEEE-754 binary64 values,    *)
(* modelled exactly: a positive double is [m, e] with value m * 2^e and    *)
(* m a 53-bit natural number kept as little-endian limbs of 15 bits, so    *)
(* that every product of two limbs stays inside TLC's integers.            *)
(***************************************************************************)
EXTENDS Integers, Sequences, FiniteSets, TLC

\* F(x) with x evaluated once, before F is applied to its value (a local
\* variable of the program holds a value, not an expression)
Bind(x, F(_)) == CHOOSE r \in {F(v) : v \in {x}} : TRUE

(***************************************************************************)
(* Natural numbers of arbitrary size: little-endian limbs, no high zero.   *)
(***************************************************************************)
Base == 2^15

RECURSIVE BTrim(_)
BTrim(a) ==
    IF a = <<>> THEN a
    ELSE IF a[Len(a)] = 0 THEN BTrim(SubSeq(a, 1, Len(a) - 1)) ELSE a

RECURSIVE BFromInt(_)
BFromInt(k) == IF k = 0 THEN <<>> ELSE <<k % Base>> \o BFromInt(k \div Base)

RECURSIVE BToInt(_)
BToInt(a) == IF a = <<>> THEN 0 ELSE Head(a) + Base * BToInt(Tail(a))

RECURSIVE BAddC(_, _, _)
BAddC(a, b, c) ==
    IF a = <<>> /\ b = <<>> THEN (IF c = 0 THEN <<>> ELSE <<c>>)
    ELSE LET x == (IF a = <<>> THEN 0 ELSE Head(a))
                + (IF b = <<>> THEN 0 ELSE Head(b)) + c
         IN  <<x % Base>> \o BAddC(IF a = <<>> THEN a ELSE Tail(a),
                                   IF b = <<>> THEN b ELSE Tail(b),
                                   x \div Base)

BAdd(a, b) == BAddC(a, b, 0)

\* a - b for a >= b
RECURSIVE BSubC(_, _, _)
BSubC(a, b, c) ==
    IF a = <<>> THEN <<>>
    ELSE LET x == Head(a) - (IF b = <<>> THEN 0 ELSE Head(b)) - c
         IN  <<x % Base>> \o BSubC(Tail(a),
                                   IF b = <<>> THEN b ELSE Tail(b),
                                   IF x < 0 THEN 1 ELSE 0)

BSub(a, b) == BTrim(BSubC(a, b, 0))

\* -1, 0, 1 as a < b, a = b, a > b
RECURSIVE BCmpAt(_, _, _)
BCmpAt(a, b, i) ==
    IF i = 0 THEN 0
    ELSE IF a[i] < b[i] THEN -1
    ELSE IF a[i] > b[i] THEN 1
    ELSE BCmpAt(a, b, i - 1)

BCmp(a, b) ==
    IF Len(a) < Len(b) THEN -1
    ELSE IF Len(a) > Len(b) THEN 1
    ELSE BCmpAt(a, b, Len(a))

\* a * k for 0 <= k <= Base
RECURSIVE BMulSmallC(_, _, _)
BMulSmallC(a, k, c) ==
    IF a = <<>> THEN (IF c = 0 THEN <<>> ELSE <<c>>)
    ELSE LET x == Head(a) * k + c
         IN  <<x % Base>> \o BMulSmallC(Tail(a), k, x \div Base)

BMulSmall(a, k) == IF k = 0 THEN <<>> ELSE BMulSmallC(a, k, 0)

RECURSIVE BMulRec(_, _)
BMulRec(a, b) ==
    IF b = <<>> THEN <<>>
    ELSE BAdd(BMulSmall(a, Head(b)), <<0>> \o BMulRec(a, Tail(b)))

BMul(a, b) == BTrim(BMulRec(a, b))

\* floor(a / k) for 1 <= k <= Base, limbs i..1 with remainder r carried in
RECURSIVE BDivSmallAt(_, _, _, _)
BDivSmallAt(a, k, i, r) ==
    IF i = 0 THEN <<>>
    ELSE LET x == r * Base + a[i]
         IN  BDivSmallAt(a, k, i - 1, x % k) \o <<x \div k>>

BDivSmall(a, k) == BTrim(BDivSmallAt(a, k, Len(a), 0))

Zeros(n) == [i \in 1..n |-> 0]

\* a * 2^s
BShl(a, s) ==
    IF a = <<>> THEN a
    ELSE Zeros(s \div 15) \o BMulSmall(a, 2^(s % 15))

\* floor(a / 2^s)
BShr(a, s) ==
    IF Len(a) <= s \div 15 THEN <<>>
    ELSE BDivSmall(SubSeq(a, (s \div 15) + 1, Len(a)), 2^(s % 15))

RECURSIVE IntBitLen(_)
IntBitLen(k) == IF k = 0 THEN 0 ELSE 1 + IntBitLen(k \div 2)

BBitLen(a) == IF a = <<>> THEN 0 ELSE 15 * (Len(a) - 1) + IntBitLen(a[Len(a)])

BOdd(a) == a # <<>> /\ a[1] % 2 = 1

(***************************************************************************)
(* binary64: round to nearest, ties to even.  Every value of the program   *)
(* is non-negative and far from the subnormal and overflow ranges.         *)
(***************************************************************************)
FZero == [m |-> <<>>, e |-> 0]

\* The double nearest to (N + f) * 2^e, where 0 <= f < 1 and sticky says
\* f > 0 (sticky only with more than 54 bits in N).
Round53(N, e, sticky) ==
    LET L == BBitLen(N) IN
    IF L = 0 THEN FZero
    ELSE IF L <= 53 THEN [m |-> BShl(N, 53 - L), e |-> e - (53 - L)]
    ELSE LET sh == L - 53 IN
         Bind(BShr(N, sh), LAMBDA q :
         LET c  == BCmp(BSub(N, BShl(q, sh)), BShl(<<1>>, sh - 1))
             up == IF c = 0 THEN sticky \/ BOdd(q) ELSE c > 0
         IN  Bind(IF up THEN BAdd(q, <<1>>) ELSE q, LAMBDA q2 :
             IF BBitLen(q2) > 53
             THEN [m |-> BShr(q2, 1), e |-> e + sh + 1]
             ELSE [m |-> q2, e |-> e + sh]))

FromInt(k) == Round53(BFromInt(k), 0, FALSE)

\* x + y
FAdd(x, y) ==
    Bind(x, LAMBDA a : Bind(y, LAMBDA b :
        IF a.m = <<>> THEN b
        ELSE IF b.m = <<>> THEN a
        ELSE LET lo == IF a.e < b.e THEN a.e ELSE b.e
             IN  Bind(BAdd(BShl(a.m, a.e - lo), BShl(b.m, b.e - lo)),
                      LAMBDA N : Round53(N, lo, FALSE))))

\* x * y
FMul(x, y) ==
    Bind(x, LAMBDA a : Bind(y, LAMBDA b :
        IF a.m = <<>> \/ b.m = <<>> THEN FZero
        ELSE Bind(BMul(a.m, b.m), LAMBDA N : Round53(N, a.e + b.e, FALSE))))

Limb(a, i) == IF i <= Len(a) THEN a[i] ELSE 0

\* floor(rem / b) for rem < b * Base and b of four limbs, the top one at
\* least Base / 2: the estimate from the leading limbs is at most 2 too big.
Digit(rem, b) ==
    Bind((Limb(rem, 5) * Base + Limb(rem, 4)) \div b[4], LAMBDA est :
    LET qh == IF est > Base - 1 THEN Base - 1 ELSE est
    IN  IF BCmp(BMulSmall(b, qh), rem) <= 0 THEN qh
        ELSE IF BCmp(BMulSmall(b, qh - 1), rem) <= 0 THEN qh - 1
        ELSE qh - 2)

\* Schoolbook long division, one quotient limb a step: the low n limbs of
\* floor(rem * Base^n / b) for rem < b, and whether a remainder is left.
RECURSIVE DivLoop(_, _, _)
DivLoop(rem, b, n) ==
    IF n = 0 THEN [q |-> <<>>, sticky |-> rem # <<>>]
    ELSE Bind(IF rem = <<>> THEN rem ELSE <<0>> \o rem, LAMBDA r1 :
         Bind(Digit(r1, b), LAMBDA d :
         Bind(BSub(r1, BMulSmall(b, d)), LAMBDA rem1 :
         Bind(DivLoop(rem1, b, n - 1), LAMBDA r :
         [q |-> r.q \o <<d>>, sticky |-> r.sticky]))))

\* x / y for y > 0: 60 fraction bits of the quotient of the mantissas (both
\* scaled by 2^7, which fills the divisor's top limb), then one rounding.
FDiv(x, y) ==
    Bind(x, LAMBDA u : Bind(y, LAMBDA v :
        IF u.m = <<>> THEN FZero
        ELSE Bind(BShl(u.m, 7), LAMBDA a : Bind(BShl(v.m, 7), LAMBDA b :
             LET q0 == IF BCmp(a, b) >= 0 THEN 1 ELSE 0
             IN  Bind(DivLoop(IF q0 = 1 THEN BSub(a, b) ELSE a, b, 4), LAMBDA d :
                 Bind(BTrim(d.q \o <<q0>>), LAMBDA N :
                 Round53(N, u.e - v.e - 60, d.sticky)))))))

\* -1, 0, 1 as x < y, x = y, x > y
FCmp(x, y) ==
    Bind(x, LAMBDA a : Bind(y, LAMBDA b :
        IF a.m = <<>> THEN (IF b.m = <<>> THEN 0 ELSE -1)
        ELSE IF b.m = <<>> THEN 1
        ELSE IF a.e < b.e THEN -1
        ELSE IF a.e > b.e THEN 1
        ELSE BCmp(a.m, b.m)))

FGe(x, y) == FCmp(x, y) >= 0
FLt(x, y) == FCmp(x, y) < 0
\* a score that is not capped: what min(score, 1.0) would be without the min
Uncapped(x, y) == x

\* min(x, y) and max(x, y): the first argument unless the second is strictly
\* smaller, or strictly larger
FMin(x, y) == Bind(x, LAMBDA a : Bind(y, LAMBDA b : IF FLt(b, a) THEN b ELSE a))
FMax(x, y) == Bind(x, LAMBDA a : Bind(y, LAMBDA b : IF FLt(a, b) THEN b ELSE a))

\* The double a decimal literal n/d denotes (0.45 is Dec(45, 100)).
Dec(n, d) == FDiv(FromInt(n), FromInt(d))

\* round(x, 2) as a number of hundredths: the exact value of x times 100,
\* rounded to the nearest integer, ties to even (x < 2^53, so x.e <= 0).
Cents(x) ==
    Bind(x, LAMBDA a :
        IF a.m = <<>> THEN 0
        ELSE LET sh == 0 - a.e IN
             Bind(BMulSmall(a.m, 100), LAMBDA N : Bind(BShr(N, sh), LAMBDA q :
             LET c == IF sh = 0 THEN -1
                      ELSE BCmp(BSub(N, BShl(q, sh)), BShl(<<1>>, sh - 1))
             IN  BToInt(q) + (IF c > 0 \/ (c = 0 /\ BOdd(q)) THEN 1 ELSE 0))))

\* round(x, 2): the double nearest to that decimal
round2(x) == Dec(Cents(x), 100)

(***************************************************************************)
(* Characters.                                                             *)
(***************************************************************************)
\* str.isspace / the pattern \s, over the characters of the model
Whitespace == {" ", "\t", "\n", "\r"}
IsSpace(c) == c \in Whitespace

LowerOf ==
    ("A" :> "a") @@ ("B" :> "b") @@ ("C" :> "c") @@ ("D" :> "d") @@ ("E" :> "e")
    @@ ("F" :> "f") @@ ("G" :> "g") @@ ("H" :> "h") @@ ("I" :> "i") @@ ("J" :> "j")
    @@ ("K" :> "k") @@ ("L" :> "l") @@ ("M" :> "m") @@ ("N" :> "n") @@ ("O" :> "o")
    @@ ("P" :> "p") @@ ("Q" :> "q") @@ ("R" :> "r") @@ ("S" :> "s") @@ ("T" :> "t")
    @@ ("U" :> "u") @@ ("V" :> "v") @@ ("W" :> "w") @@ ("X" :> "x") @@ ("Y" :> "y")
    @@ ("Z" :> "z")

\* the character class \w: letters, digits and the underscore
WordChars ==
    DOMAIN LowerOf \cup {LowerOf[c] : c \in DOMAIN LowerOf}
    \cup {"0", "1", "2", "3", "4", "5", "6", "7", "8", "9", "_"}
IsWord(c) == c \in WordChars

\* s[i] for each i of lo..hi that is in the index set K, in increasing order
RECURSIVE PickRange(_, _, _, _)
PickRange(s, K, lo, hi) ==
    IF lo > hi THEN <<>>
    ELSE IF lo = hi THEN (IF lo \in K THEN <<s[lo]>> ELSE <<>>)
    ELSE LET mid == (lo + hi) \div 2
         IN  PickRange(s, K, lo, mid) \o PickRange(s, K, mid + 1, hi)

\* s[i] for each i of the index set K, in increasing order
PickIndices(s, K) ==
    Bind(s, LAMBDA sv : Bind(K, LAMBDA Kv : PickRange(sv, Kv, 1, Len(sv))))

\* p in t
Contains(t, p) ==
    p = <<>> \/ \E i \in 1..(Len(t) - Len(p) + 1) :
                    t[i] = p[1] /\ SubSeq(t, i, i + Len(p) - 1) = p

\* " ".join(parts), by halves
\* "".join(parts): the parts with nothing between them
RECURSIVE JoinNoSep(_)
JoinNoSep(parts) ==
    IF parts = <<>> THEN <<>> ELSE Head(parts) \o JoinNoSep(Tail(parts))

\* " ".join(parts)
RECURSIVE Join(_)
Join(parts) ==
    IF parts = <<>> THEN <<>>
    ELSE IF Len(parts) = 1 THEN parts[1]
    ELSE LET h == Len(parts) \div 2
         IN  Join(SubSeq(parts, 1, h)) \o <<" ">>
             \o Join(SubSeq(parts, h + 1, Len(parts)))

\* NEG_EMO_WORDS: withdrawal and dismissal phrases
NEG_EMO_WORDS == {
    <<"w", "h", "a", "t", "e", "v", "e", "r">>,
    <<"i", "d", "c">>,
    <<"d", "o", "n", "t", " ", "c", "a", "r", "e">>,
    <<"d", "o", "n", "U2019", "t", " ", "c", "a", "r", "e">>,
    <<"w", "h", "a", "t", "e", "v", "e", "r", ".">>,
    <<"f", "i", "n", "e", ".">>,
    <<"o", "k", ".">>,
    <<"k", ".">>,
    <<"k">>,
    <<"s", "u", "r", "e", ".">>,
    <<"g", "r", "e", "a", "t", ".">>,
    <<"c", "o", "o", "l", ".">>,
    <<"a", "s", " ", "y", "o", "u", " ", "w", "i", "s", "h">>,
    <<"d", "o", " ", "w", "h", "a", "t", " ", "y", "o", "u", " ", "w", "a", "n", "t">>,
    <<"y", "o", "u", " ", "d", "o", " ", "y", "o", "u">>,
    <<"i", "t", "U2019", "s", " ", "f", "i", "n", "e">>,
    <<"i", "t", "s", " ", "f", "i", "n", "e">>,
    <<"i", "U2019", "m", " ", "f", "i", "n", "e">>,
    <<"i", "m", " ", "f", "i", "n", "e">>,
    <<"i", "U2019", "m", " ", "o", "k", "a", "y">>,
    <<"i", "m", " ", "o", "k", "a", "y">>,
    <<"o", "k", "a", "y", ".">>,
    <<"f", "o", "r", "g", "e", "t", " ", "i", "t">>,
    <<"l", "e", "a", "v", "e", " ", "m", "e", " ", "a", "l", "o", "n", "e">>,
    <<"d", "o", " ", "w", "h", "a", "t", "e", "v", "e", "r">>,
    <<"d", "o", "e", "s", "n", "U2019", "t", " ", "m", "a", "t", "t", "e", "r">>,
    <<"d", "o", "e", "s", "n", "t", " ", "m", "a", "t", "t", "e", "r">> }

\* HURT_CUES: accusatory phrases
HURT_CUES == {
    <<"y", "o", "u", " ", "n", "e", "v", "e", "r">>,
    <<"y", "o", "u", " ", "a", "l", "w", "a", "y", "s">>,
    <<"y", "o", "u", " ", "d", "i", "d", "n", "U2019", "t">>,
    <<"y", "o", "u", " ", "d", "i", "d", "n", "t">>,
    <<"y", "o", "u", " ", "w", "o", "u", "l", "d", "n", "U2019", "t">>,
    <<"y", "o", "u", " ", "w", "o", "u", "l", "d", "n", "t">>,
    <<"y", "o", "u", " ", "s", "a", "i", "d">>,
    <<"a", "f", "t", "e", "r", " ", "w", "h", "a", "t", " ", "y", "o", "u", " ", "d", "i", "d">>,
    <<"h", "o", "w", " ", "c", "o", "u", "l", "d", " ", "y", "o", "u">>,
    <<"t", "h", "a", "t", " ", "h", "u", "r", "t">>,
    <<"i", " ", "d", "o", "n", "U2019", "t", " ", "m", "a", "t", "t", "e", "r">>,
    <<"i", " ", "d", "o", "n", "t", " ", "m", "a", "t", "t", "e", "r">> }

\* DRY_SINGLETONS: curt one-word replies
DRY_SINGLETONS == {
    <<"k">>,
    <<"o", "k">>,
    <<"o", "k", "a", "y">>,
    <<"f", "i", "n", "e">>,
    <<"w", "h", "a", "t", "e", "v", "e", "r">> }

\* SOFTENERS: softening language
SOFTENERS == {
    <<"m", "a", "y", "b", "e">>,
    <<"p", "e", "r", "h", "a", "p", "s">>,
    <<"c", "o", "u", "l", "d">>,
    <<"m", "i", "g", "h", "t">>,
    <<"i", " ", "f", "e", "e", "l">>,
    <<"f", "r", "o", "m", " ", "m", "y", " ", "s", "i", "d", "e">>,
    <<"i", " ", "t", "h", "i", "n", "k">> }

EMOJIS_SAD == {"U1F614", "U1F61E", "U1F622", "U1F62D", "U1F643", "U1F972", "U1F611", "U1F612", "U1F44E"}

EMOJIS_ANGRY == {"U1F620", "U1F621", "U1F4A2"}

ELLIPSIS == <<".", ".", ".">>

\* the alternatives of the negation pattern
NEGATIONS == {
    <<"n", "o">>,
    <<"n", "o", "t">>,
    <<"d", "o", "n", "U2019", "t">>,
    <<"d", "o", "n", "t">>,
    <<"n", "e", "v", "e", "r">>,
    <<"n", "o", "t", "h", "i", "n", "g">>,
    <<"n", "o", "w", "a", "y">> }

\* signals.append("phrases suggesting withdrawal ('fine', 'whatever', 'I'm okay').")
SIG_WITHDRAWAL ==
    <<"p", "h", "r", "a", "s", "e", "s", " ", "s", "u", "g", "g", "e", "s",
      "t", "i", "n", "g", " ", "w", "i", "t", "h", "d", "r", "a", "w", "a",
      "l", " ", "(", "U2018", "f", "i", "n", "e", "U2019", ",", " ", "U2018",
      "w", "h", "a", "t", "e", "v", "e", "r", "U2019", ",", " ", "U2018",
      "I", "U2019", "m", " ", "o", "k", "a", "y", "U2019", ")", ".">>

\* signals.append("short/dry reply.")
SIG_DRY ==
    <<"s", "h", "o", "r", "t", "/", "d", "r", "y", " ", "r", "e", "p", "l",
      "y", ".">>

\* signals.append("hurt/accusatory cues ('you never', 'after what you did').")
SIG_HURT ==
    <<"h", "u", "r", "t", "/", "a", "c", "c", "u", "s", "a", "t", "o", "r",
      "y", " ", "c", "u", "e", "s", " ", "(", "U2018", "y", "o", "u", " ",
      "n", "e", "v", "e", "r", "U2019", ",", " ", "U2018", "a", "f", "t",
      "e", "r", " ", "w", "h", "a", "t", " ", "y", "o", "u", " ", "d", "i",
      "d", "U2019", ")", ".">>

\* signals.append("repeated punctuation (emotionally charged).")
SIG_PUNCT ==
    <<"r", "e", "p", "e", "a", "t", "e", "d", " ", "p", "u", "n", "c", "t",
      "u", "a", "t", "i", "o", "n", " ", "(", "e", "m", "o", "t", "i", "o",
      "n", "a", "l", "l", "y", " ", "c", "h", "a", "r", "g", "e", "d", ")",
      ".">>

\* signals.append("ellipsis (distance/withholding).")
SIG_ELLIPSIS ==
    <<"e", "l", "l", "i", "p", "s", "i", "s", " ", "(", "d", "i", "s", "t",
      "a", "n", "c", "e", "/", "w", "i", "t", "h", "h", "o", "l", "d", "i",
      "n", "g", ")", ".">>

\* signals.append("sad/angry emoji present.")
SIG_EMOJI ==
    <<"s", "a", "d", "/", "a", "n", "g", "r", "y", " ", "e", "m", "o", "j",
      "i", " ", "p", "r", "e", "s", "e", "n", "t", ".">>

\* signals.append("no softening language.")
SIG_SOFTENER ==
    <<"n", "o", " ", "s", "o", "f", "t", "e", "n", "i", "n", "g", " ", "l",
      "a", "n", "g", "u", "a", "g", "e", ".">>

\* the text suggest_action looks for in the joined signals
HURT_TAG ==
    <<"h", "u", "r", "t", "/", "a", "c", "c", "u", "s", "a", "t", "o", "r",
      "y">>

(***************************************************************************)
(* Text normaliser and signal detectors.                                   *)
(***************************************************************************)
strip(text) ==
    LET ns == {i \in 1..Len(text) : ~IsSpace(text[i])}
    IN  IF ns = {} THEN <<>>
        ELSE SubSeq(text, CHOOSE i \in ns : \A k \in ns : i <= k,
                          CHOOSE i \in ns : \A k \in ns : k <= i)

lower(text) == [i \in 1..Len(text) |-> IF text[i] \in DOMAIN LowerOf
                                       THEN LowerOf[text[i]] ELSE text[i]]

\* re.sub(r"\s+", " ", s): every maximal run of whitespace becomes one space
collapse(s) ==
    LET kept == {i \in 1..Len(s) : ~IsSpace(s[i]) \/ i = 1 \/ ~IsSpace(s[i - 1])}
    IN  PickIndices([i \in 1..Len(s) |-> IF IsSpace(s[i]) THEN " " ELSE s[i]], kept)

norm(text) == collapse(lower(strip(text)))

count_emojis(text) ==
    Cardinality({i \in 1..Len(text) : text[i] \in EMOJIS_SAD \/ text[i] \in EMOJIS_ANGRY})

\* str.split(): the maximal runs of characters that are not whitespace
split(t) ==
    LET starts == {i \in 1..Len(t) : ~IsSpace(t[i]) /\ (i = 1 \/ IsSpace(t[i - 1]))}
        ends   == {i \in 1..Len(t) : ~IsSpace(t[i]) /\ (i = Len(t) \/ IsSpace(t[i + 1]))}
    IN  [j \in 1..Cardinality(starts) |->
            SubSeq(t, CHOOSE i \in starts : Cardinality({k \in starts : k < i}) = j - 1,
                      CHOOSE i \in ends : Cardinality({k \in ends : k < i}) = j - 1)]

is_short_dry(text) ==
    LET t     == norm(text)
        words == split(t)
    IN  \/ /\ Len(words) <= 2
           /\ \/ t \in DRY_SINGLETONS
              \/ (t # <<>> /\ t[Len(t)] = ".")
              \/ t = <<"k">>
        \/ (t # <<>> /\ \A i \in 1..Len(t) : t[i] \in {".", "!", "?"})

\* \b(no|not|...)\b: every alternative begins and ends with a word character,
\* so a boundary is a neighbour that is no word character, or none at all
negations_present(text) ==
    LET t == norm(text)
    IN  \E w \in NEGATIONS : \E i \in 1..(Len(t) - Len(w) + 1) :
            /\ t[i] = w[1]
            /\ SubSeq(t, i, i + Len(w) - 1) = w
            /\ (i = 1 \/ ~IsWord(t[i - 1]))
            /\ (i + Len(w) > Len(t) \/ ~IsWord(t[i + Len(w)]))

contains_any(text, bag) ==
    LET t == norm(text) IN \E phrase \in bag : Contains(t, phrase)

missing_softeners(text) ==
    LET t == norm(text) IN ~ \E w \in SOFTENERS : Contains(t, w)

\* ELLIPSIS in text or the pattern \.\s*\.\s*\.
ellipsis_like(text) ==
    \/ Contains(text, ELLIPSIS)
    \/ \E i \in 1..Len(text) : \E j \in (i + 1)..Len(text) : \E k \in (j + 1)..Len(text) :
            /\ text[i] = "." /\ text[j] = "." /\ text[k] = "."
            /\ \A x \in (i + 1)..(k - 1) : x = j \/ IsSpace(text[x])

\* ([!?])\1{1,}
repeated_punct(text) ==
    \E i \in 1..(Len(text) - 1) : text[i] \in {"!", "?"} /\ text[i + 1] = text[i]

(***************************************************************************)
(* Hostility scorer.                                                       *)
(***************************************************************************)
\* Other weights and another cutoff, under which the laws below must fail
W_HURT_50     == Dec(50, 100)
W_NEGATION_10 == Dec(10, 100)
W_ELLIPSIS_58 == Dec(58, 100)
F_HALF_49     == Dec(49, 100)

W_HURT       == Dec(45, 100)
W_NEGATION   == Dec(15, 100)
W_PUNCT      == Dec(15, 100)
W_EMOJI      == Dec(1, 10)
W_ELLIPSIS   == Dec(8, 100)
W_WITHDRAWAL == Dec(25, 100)
W_DRY        == Dec(22, 100)
W_SOFTENER   == Dec(5, 100)
F_ONE        == Dec(10, 10)
F_HALF       == Dec(5, 10)

\* if cond: score += w
AddIf(score, cond, w) == IF cond THEN FAdd(score, w) ELSE score

hostility_score(text) ==
    LET t  == norm(text)
        s1 == AddIf(FZero, contains_any(t, HURT_CUES), W_HURT)
        s2 == AddIf(s1, negations_present(t), W_NEGATION)
        s3 == AddIf(s2, repeated_punct(t), W_PUNCT)
        s4 == AddIf(s3, count_emojis(text) > 0, W_EMOJI)
        s5 == AddIf(s4, ellipsis_like(text), W_ELLIPSIS)
        s6 == AddIf(s5, contains_any(t, NEG_EMO_WORDS), W_WITHDRAWAL)
        s7 == AddIf(s6, is_short_dry(text), W_DRY)
        s8 == AddIf(s7, missing_softeners(text), W_SOFTENER)
    IN  FMin(s8, F_ONE)

(***************************************************************************)
(* Action recommender.                                                     *)
(***************************************************************************)
own_and_apologize ==
    "I'm sorry I let you down there. I care about how you feel, and I want to make it right. What would help right now?"
acknowledge_and_invite ==
    "I may have missed something. Your feelings matter to me - do you want to talk about it? I'm listening."
offer_space ==
    "I can sense this is heavy. I'm here for you, and I'll give you a bit of space if you need it. Message me when you're ready."
clarify_gently ==
    "I want to understand you better. Could you help me see what I missed? I'm asking so I can do better."

F_HIGH == Dec(7, 10)
F_MED  == Dec(55, 100)

suggest_action(text, signals, confidence) ==
    LET t    == norm(text)
        high == FGe(confidence, F_HIGH)
        med  == FGe(confidence, F_MED) /\ FLt(confidence, F_HIGH)
    IN  IF contains_any(t, HURT_CUES) \/ Contains(Join(signals), HURT_TAG)
        THEN own_and_apologize
        ELSE IF is_short_dry(text) \/ contains_any(t, NEG_EMO_WORDS)
        THEN (IF med \/ high THEN acknowledge_and_invite ELSE clarify_gently)
        ELSE IF repeated_punct(text) \/ count_emojis(text) > 0
        THEN acknowledge_and_invite
        ELSE IF ellipsis_like(text)
        THEN (IF med \/ high THEN offer_space ELSE clarify_gently)
        ELSE clarify_gently

(***************************************************************************)
(* Message analyzer.                                                       *)
(***************************************************************************)
\* if cond: signals.append(s)
AppendIf(signals, cond, s) == IF cond THEN Append(signals, s) ELSE signals

message_signals(text) ==
    LET g1 == AppendIf(<<>>, contains_any(text, NEG_EMO_WORDS), SIG_WITHDRAWAL)
        g2 == AppendIf(g1, is_short_dry(text), SIG_DRY)
        g3 == AppendIf(g2, contains_any(text, HURT_CUES), SIG_HURT)
        g4 == AppendIf(g3, repeated_punct(text), SIG_PUNCT)
        g5 == AppendIf(g4, ellipsis_like(text), SIG_ELLIPSIS)
        g6 == AppendIf(g5, count_emojis(text) > 0, SIG_EMOJI)
    IN  AppendIf(g6, missing_softeners(text), SIG_SOFTENER)

\* the local variables s and signals of analyze_message before it thresholds
analyze_message_frame(text) ==
    [s |-> hostility_score(text), signals |-> message_signals(text)]

\* the dictionary analyze_message returns from these local variables
analyze_message_return(text, frame) ==
    Bind(frame, LAMBDA f :
    LET is_upset == FGe(f.s, F_HALF)
    IN  [is_upset         |-> is_upset,
         confidence       |-> round2(f.s),
         signals          |-> f.signals,
         reason           |-> IF is_upset
                              THEN "Message contains multiple upset signals."
                              ELSE "Few or weak upset signals detected.",
         suggested_action |-> suggest_action(text, f.signals, f.s)])

analyze_message(text) == analyze_message_return(text, analyze_message_frame(text))

(***************************************************************************)
(* Conversation analyzer.                                                  *)
(***************************************************************************)
PyNone == "None"

\* the result for an empty filtered list
neutral_result ==
    [is_upset         |-> FALSE,
     confidence       |-> FZero,
     signals          |-> <<>>,
     reason           |-> "No messages to analyze.",
     suggested_action |-> "Ask a gentle, open question to invite sharing."]

\* every message weighing the same
UniformWeight(idx, n) == Dec(10, 10)

\* w = 0.6 + 0.4 * (idx + 1) / max(1, len(filtered)), idx counted from 0
recency_weight(idx, n) ==
    FAdd(Dec(6, 10),
         FDiv(FMul(Dec(4, 10), FromInt(idx + 1)), FromInt(IF n < 1 THEN 1 ELSE n)))

\* sum(xs): 0 + xs[1] + ... + xs[n], from the left
RECURSIVE fsum(_)
fsum(xs) ==
    IF xs = <<>> THEN FZero
    ELSE FAdd(fsum(SubSeq(xs, 1, Len(xs) - 1)), xs[Len(xs)])

\* all_signals after one extend per result
RECURSIVE extend_all(_)
extend_all(lists) ==
    IF lists = <<>> THEN <<>>
    ELSE extend_all(SubSeq(lists, 1, Len(lists) - 1)) \o lists[Len(lists)]

\* the last occurrence of every element, in order
KeepLast(xs) ==
    PickIndices(xs, {i \in 1..Len(xs) : \A k \in (i + 1)..Len(xs) : xs[k] # xs[i]})

\* list(dict.fromkeys(xs)): the first occurrence of every element, in order
dedup(xs) ==
    PickIndices(xs, {i \in 1..Len(xs) : \A k \in 1..(i - 1) : xs[k] # xs[i]})

\* no filtering at all
NoFilter(messages, focus_author) == messages

focus_filter(messages, focus_author) ==
    IF focus_author # PyNone /\ focus_author # ""
    THEN SelectSeq(messages, LAMBDA m : m.author = focus_author)
    ELSE messages

\* the local variables of analyze_conversation before it builds its result;
\* only filtered exists when the function returns early
analyze_conversation_frame(messages, focus_author) ==
    Bind(focus_filter(messages, focus_author), LAMBDA filtered :
    LET n == Len(filtered)
    IN  IF filtered = <<>> THEN [filtered |-> filtered]
        ELSE
        Bind([i \in 1..n |-> recency_weight(i - 1, n)], LAMBDA weights :
        Bind([i \in 1..n |-> analyze_message(filtered[i].text)], LAMBDA res :
        Bind([i \in 1..n |-> res[i].confidence], LAMBDA scores :
        LET total_w == fsum(weights)
        IN  [filtered    |-> filtered,
             weights     |-> weights,
             scores      |-> scores,
             all_signals |-> extend_all([i \in 1..n |-> res[i].signals]),
             avg         |-> FDiv(fsum([i \in 1..n |-> FMul(scores[i], weights[i])]),
                                  FMax(total_w, Dec(1, 10^9)))]))))

\* the dictionary analyze_conversation returns from these local variables
analyze_conversation_return(frame) ==
    Bind(frame, LAMBDA f :
    IF f.filtered = <<>> THEN neutral_result
    ELSE LET is_upset == FGe(f.avg, F_HALF)
         IN  [is_upset         |-> is_upset,
              confidence       |-> round2(f.avg),
              signals          |-> dedup(f.all_signals),
              reason           |-> IF is_upset THEN "Recent messages tilt upset."
                                   ELSE "Tone mostly neutral.",
              suggested_action |-> suggest_action(f.filtered[Len(f.filtered)].text,
                                                  f.all_signals, f.avg)])

analyze_conversation(messages, focus_author) ==
    analyze_conversation_return(analyze_conversation_frame(messages, focus_author))

(***************************************************************************)
(* Inputs.                                                                 *)
(***************************************************************************)
MaxAtoms == 3
MaxMsgs  == 3
MaxSigs  == 2

\* The pieces message texts are built from: "you", " never", " said",
\* " could", "K", ".", "..", " whatever!!", a crying face, " "
Atoms ==
    <<<<"y", "o", "u">>,
      <<" ", "n", "e", "v", "e", "r">>,
      <<" ", "s", "a", "i", "d">>,
      <<" ", "c", "o", "u", "l", "d">>,
      <<"K">>,
      <<".">>,
      <<".", ".">>,
      <<" ", "w", "h", "a", "t", "e", "v", "e", "r", "!", "!">>,
      <<"U1F622">>,
      <<" ">>>>

RECURSIVE Flatten(_)
Flatten(parts) ==
    IF parts = <<>> THEN <<>> ELSE Head(parts) \o Flatten(Tail(parts))

SeqsUpTo(S, n) == UNION {[1..k -> S] : k \in 0..n}

Texts == {Flatten([i \in DOMAIN f |-> Atoms[f[i]]]) : f \in SeqsUpTo(DOMAIN Atoms, MaxAtoms)}

\* Conversation entries: "no <crying face>!!k.", "...no", "could k.", "K"
\* from "her", "you said" from "me"
Entries ==
    { [text |-> <<"n", "o", " ", "U1F622", "!", "!", "k", ".">>, author |-> "her"],
      [text |-> <<".", ".", ".", "n", "o">>, author |-> "her"],
      [text |-> <<"c", "o", "u", "l", "d", " ", "k", ".">>, author |-> "her"],
      [text |-> <<"K">>, author |-> "her"],
      [text |-> <<"y", "o", "u", " ", "s", "a", "i", "d">>, author |-> "me"] }

FocusAuthors == {PyNone, "", "her", "sender"}

\* Direct calls of suggest_action: "you said", "K", "hi!!", a crying face,
\* "...hi", "hi"
ActTexts ==
    { <<"y", "o", "u", " ", "s", "a", "i", "d">>,
      <<"K">>,
      <<"h", "i", "!", "!">>,
      <<"U1F622">>,
      <<".", ".", ".", "h", "i">>,
      <<"h", "i">> }

SigPool ==
    { SIG_HURT, SIG_DRY,
      <<"h", "u", "r", "t", "/", "a", "c", "c", "u", "s">>,
      <<"a", "t", "o", "r", "y">> }

ActConfidences == {FZero, Dec(54, 100), F_MED, F_HIGH, F_ONE}

(***************************************************************************)
(* The calls: a state holds one call and, once it has returned, its result.*)
(***************************************************************************)
VARIABLES pc, op, arg_text, arg_messages, arg_focus_author, arg_signals,
          arg_confidence, locals, result

vars == <<pc, op, arg_text, arg_messages, arg_focus_author, arg_signals,
          arg_confidence, locals, result>>

NoResult == "none"
NoLocals == "none"

InitMessage ==
    /\ pc = "call" /\ op = "analyze_message"
    /\ arg_text \in Texts
    /\ arg_messages = <<>> /\ arg_focus_author = PyNone
    /\ arg_signals = <<>> /\ arg_confidence = FZero
    /\ locals = NoLocals /\ result = NoResult

InitConversation ==
    /\ pc = "call" /\ op = "analyze_conversation"
    /\ arg_text = <<>>
    /\ arg_messages \in SeqsUpTo(Entries, MaxMsgs)
    /\ arg_focus_author \in FocusAuthors
    /\ arg_signals = <<>> /\ arg_confidence = FZero
    /\ locals = NoLocals /\ result = NoResult

InitAction ==
    /\ pc = "call" /\ op = "suggest_action"
    /\ arg_text \in ActTexts
    /\ arg_messages = <<>> /\ arg_focus_author = PyNone
    /\ arg_signals \in SeqsUpTo(SigPool, MaxSigs)
    /\ arg_confidence \in ActConfidences
    /\ locals = NoLocals /\ result = NoResult

Init == InitMessage \/ InitConversation \/ InitAction

AnalyzeMessage ==
    /\ pc = "call" /\ op = "analyze_message"
    /\ locals' = analyze_message_frame(arg_text)
    /\ result' = analyze_message_return(arg_text, locals')
    /\ pc' = "return"
    /\ UNCHANGED <<op, arg_text, arg_messages, arg_focus_author, arg_signals,
                   arg_confidence>>

AnalyzeConversation ==
    /\ pc = "call" /\ op = "analyze_conversation"
    /\ locals' = analyze_conversation_frame(arg_messages, arg_focus_author)
    /\ result' = analyze_conversation_return(locals')
    /\ pc' = "return"
    /\ UNCHANGED <<op, arg_text, arg_messages, arg_focus_author, arg_signals,
                   arg_confidence>>

SuggestAction ==
    /\ pc = "call" /\ op = "suggest_action"
    /\ locals' = NoLocals
    /\ result' = suggest_action(arg_text, arg_signals, arg_confidence)
    /\ pc' = "return"
    /\ UNCHANGED <<op, arg_text, arg_messages, arg_focus_author, arg_signals,
                   arg_confidence>>

Next == AnalyzeMessage \/ AnalyzeConversation \/ SuggestAction

Spec == Init /\ [][Next]_vars

\* One operation at a time
SpecMessage      == InitMessage /\ [][AnalyzeMessage]_vars
SpecConversation == InitConversation /\ [][AnalyzeConversation]_vars
SpecAction       == InitAction /\ [][SuggestAction]_vars

(***************************************************************************)
(* Properties.                                                             *)
(***************************************************************************)
MessageReturned      == pc = "return" /\ op = "analyze_message"
ConversationReturned == pc = "return" /\ op = "analyze_conversation"
ActionReturned       == pc = "return" /\ op = "suggest_action"

\* the explanation strings in the order the specification fixes, with the
\* weight of each detector in hundredths
FixedOrder ==
    <<SIG_WITHDRAWAL, SIG_DRY, SIG_HURT, SIG_PUNCT, SIG_ELLIPSIS, SIG_EMOJI,
      SIG_SOFTENER>>
FixedCents == <<25, 22, 45, 15, 8, 10, 5>>

\* detector number i of that order fires on the text as given
DetectorFires(i, text) ==
    CASE i = 1 -> contains_any(text, NEG_EMO_WORDS)
      [] i = 2 -> is_short_dry(text)
      [] i = 3 -> contains_any(text, HURT_CUES)
      [] i = 4 -> repeated_punct(text)
      [] i = 5 -> ellipsis_like(text)
      [] i = 6 -> count_emojis(text) > 0
      [] i = 7 -> missing_softeners(text)

\* the decision tree comes to its ellipsis rule for a single message
EllipsisRuleReached(text) ==
    /\ \A i \in {1, 2, 3, 4, 6} : ~DetectorFires(i, text)
    /\ DetectorFires(5, text)

\* the list left after the optional filtering by author
FilteredInput ==
    IF arg_focus_author \in {PyNone, ""} THEN arg_messages
    ELSE SelectSeq(arg_messages, LAMBDA m : m.author = arg_focus_author)

\* position of the first occurrence of x in xs
FirstAt(xs, x) == CHOOSE i \in 1..Len(xs) : xs[i] = x /\ \A k \in 1..(i - 1) : xs[k] # x

\* C1: the confidence analyze_message returns and the confidence
\* analyze_conversation returns are both at least 0.0 and at most 1.0.
C1_ConfidenceInUnitInterval ==
    (MessageReturned \/ ConversationReturned) =>
        /\ FGe(result.confidence, FZero)
        /\ FGe(FromInt(1), result.confidence)

\* C1, its case: a message whose weights add up to more than 1 and whose
\* returned confidence is the cap
C1_Witness ==
    /\ MessageReturned
    /\ result.confidence = FromInt(1)
    /\ Len(result.signals) >= 3 /\ negations_present(arg_text)

\* C2 as stated: for every message text the returned is_upset equals
\* (returned confidence >= 0.5).
C2_VerdictIsThresholdOfReturnedConfidence ==
    MessageReturned => (result.is_upset <=> FGe(result.confidence, Dec(5, 10)))

\* C3: for a non-empty filtered list the aggregate before rounding is
\* sum(c_i * w_i) / sum(w_i) with c_i the confidence analyze_message returns
\* for the i-th filtered message and w_i = 0.6 + 0.4 * (i + 1) / n; the last
\* weight is exactly 1.0 and the weights strictly increase; the returned
\* confidence is that aggregate rounded to 2 decimals.
C3_WeightedAverageLaw ==
    (ConversationReturned /\ FilteredInput # <<>>) =>
        LET f == FilteredInput
            n == Len(f)
            w == [i \in 1..n |->
                    FAdd(Dec(6, 10), FDiv(FMul(Dec(4, 10), FromInt(i)), FromInt(n)))]
            c == [i \in 1..n |-> analyze_message(f[i].text).confidence]
        IN  /\ locals.weights = w
            /\ locals.avg = FDiv(fsum([i \in 1..n |-> FMul(c[i], w[i])]), fsum(w))
            /\ result.confidence = round2(locals.avg)
            /\ w[n] = FromInt(1)
            /\ \A i \in 1..(n - 1) : FLt(w[i], w[i + 1])

\* C3, its case: three filtered messages whose confidences differ
C3_Witness ==
    /\ ConversationReturned
    /\ Len(FilteredInput) = 3
    /\ locals.scores[1] # locals.scores[2] /\ locals.scores[2] # locals.scores[3]

C5_VerdictIsThresholdOfRoundedConfidence ==
    ConversationReturned => (result.is_upset <=> FGe(result.confidence, Dec(5, 10)))

\* C5 amended: the is_upset analyze_conversation returns is true exactly when
\* the aggregate before rounding is >= 0.5 (and false in the neutral result);
\* so is_upset implies a returned confidence >= 0.5, and a returned confidence
\* >= 0.51 implies is_upset.
C5_VerdictIsThresholdOfAggregate ==
    ConversationReturned =>
        /\ result.is_upset <=>
              (FilteredInput # <<>> /\ FGe(locals.avg, Dec(5, 10)))
        /\ result.is_upset => FGe(result.confidence, Dec(5, 10))
        /\ FGe(result.confidence, Dec(51, 100)) => result.is_upset

\* C5, its case: an aggregate below 0.5 that rounds to 0.5
C5_Witness ==
    /\ ConversationReturned
    /\ FilteredInput # <<>>
    /\ ~result.is_upset
    /\ result.confidence = Dec(5, 10)

\* C6: the signals analyze_conversation returns are the order-preserving
\* deduplication of the concatenation, in filtered order, of the signals
\* analyze_message returns for each filtered message: no string twice, none
\* added, none lost, each at the place of its first occurrence.
C6_SignalsAreDedupOfConcatenation ==
    ConversationReturned =>
        LET f   == FilteredInput
            cat == extend_all([i \in 1..Len(f) |-> analyze_message(f[i].text).signals])
            out == result.signals
        IN  /\ \A a, b \in 1..Len(out) : a # b => out[a] # out[b]
            /\ {out[a] : a \in 1..Len(out)} = {cat[k] : k \in 1..Len(cat)}
            /\ \A a, b \in 1..Len(out) :
                  a < b => FirstAt(cat, out[a]) < FirstAt(cat, out[b])

\* C6, its case: a string that a later message repeats after another string
\* came in between
C6_Witness ==
    /\ ConversationReturned
    /\ Len(FilteredInput) >= 2
    /\ result.signals # locals.all_signals
    /\ result.signals # KeepLast(locals.all_signals)

\* C7: an empty filtered list gives the fixed neutral result and no message
\* is analysed; a non-empty filtered list does not give the neutral reason.
C7_NeutralResultIffNothingLeft ==
    ConversationReturned =>
        IF FilteredInput = <<>>
        THEN /\ result = [is_upset         |-> FALSE,
                          confidence       |-> FZero,
                          signals          |-> <<>>,
                          reason           |-> "No messages to analyze.",
                          suggested_action |->
                              "Ask a gentle, open question to invite sharing."]
             /\ DOMAIN locals = {"filtered"}
        ELSE result.reason # "No messages to analyze."

\* C7, its case: a non-empty list of which the focus author wrote nothing
C7_Witness ==
    /\ ConversationReturned
    /\ arg_messages # <<>>
    /\ FilteredInput = <<>>
    /\ result.reason = "No messages to analyze."

\* C8: the returned signals list exactly the detectors that fire on the
\* text, in the order withdrawal, dry-reply, hurt-cue, repeated-punctuation,
\* ellipsis, emoji, missing-softener; and the returned confidence is
\* min(1.0, S), S being the sum of the weights of the listed detectors plus
\* 0.15 when the negation detector fires.
C8_ScoreAgreesWithExplanations ==
    MessageReturned =>
        LET sig    == result.signals
            listed == {i \in 1..7 : \E k \in 1..Len(sig) : sig[k] = FixedOrder[i]}
            cents(i) == IF i \in listed THEN FixedCents[i] ELSE 0
            S      == cents(1) + cents(2) + cents(3) + cents(4) + cents(5)
                      + cents(6) + cents(7)
                      + (IF negations_present(arg_text) THEN 15 ELSE 0)
        IN  /\ sig = PickIndices(FixedOrder, listed)
            /\ \A i \in 1..7 : i \in listed <=> DetectorFires(i, arg_text)
            /\ result.confidence = Dec(IF S > 100 THEN 100 ELSE S, 100)

\* C8, its case: the negation detector and repeated punctuation fire among
\* others, and the sum stays under the cap
C8_Witness ==
    /\ MessageReturned
    /\ negations_present(arg_text)
    /\ \E k \in 1..Len(result.signals) : result.signals[k] = SIG_PUNCT
    /\ Len(result.signals) >= 3
    /\ FLt(result.confidence, FromInt(1))

\* C9 as stated: whenever analyze_message returns is_upset = true, the
\* returned signals hold at least two explanation strings.
C9_UpsetHasTwoExplanations ==
    (MessageReturned /\ result.is_upset) => Len(result.signals) >= 2

\* C9 amended: whenever analyze_message returns is_upset = true, at least two
\* detectors fired, counting the negation detector, which has no explanation
\* string; so the returned signals hold at least one explanation string, and
\* at least two unless the negation detector fired.
C9_UpsetHasTwoDetectors ==
    (MessageReturned /\ result.is_upset) =>
        /\ Len(result.signals) >= 1
        /\ Len(result.signals) + (IF negations_present(arg_text) THEN 1 ELSE 0) >= 2

\* C9, its case: an upset message with a single explanation string
C9_Witness ==
    /\ MessageReturned
    /\ result.is_upset
    /\ result.signals = <<SIG_HURT>>

\* C10: analyze_message never returns the offer-space template; whenever the
\* decision tree comes to the ellipsis rule for a single message, the
\* message's confidence is below 0.55 and clarify-gently results.
C10_MessageNeverOffersSpace ==
    MessageReturned =>
        /\ result.suggested_action # offer_space
        /\ EllipsisRuleReached(arg_text) =>
              /\ FLt(locals.s, Dec(55, 100))
              /\ FLt(result.confidence, Dec(55, 100))
              /\ result.suggested_action = clarify_gently

\* C10, its case: analyze_conversation returns offer-space for a last
\* message that, analysed alone, comes to the ellipsis rule and gets
\* clarify-gently
C10_Witness ==
    /\ ConversationReturned
    /\ FilteredInput # <<>>
    /\ result.suggested_action = offer_space
    /\ EllipsisRuleReached(FilteredInput[Len(FilteredInput)].text)
    /\ analyze_message(FilteredInput[Len(FilteredInput)].text).suggested_action
          = clarify_gently

====
